---- MODULE Spec2Model ----
(***************************************************************************)
(* A model of the copy-on-write trie of src/src/trie.rs.                   *)
(*                                                                         *)
(* Nodes live in a heap: heap[p] is the Node behind the Arc<Node> whose    *)
(* address is p, and Arc::new appends a node to the heap.  A Trie is its   *)
(* root, an Option<Arc<Node>>: NoRoot or an address.  The program keeps    *)
(* every Trie it has built in `versions`, together with the call that      *)
(* built it, and `ret` is the value returned by the last get or get_root.  *)
(* `held` are the Tries the program has not dropped and `freed` the nodes  *)
(* whose last Arc was dropped.  `threads` holds, for every thread that    *)
(* runs a call one node read or one node construction at a time, the       *)
(* locals of that call.                                                    *)
(***************************************************************************)
EXTENDS Integers, Sequences, FiniteSets, TLC

\* ------------------------------------------------------------------ bounds
\* Keys are the character sequences of length 0..MaxKeyLen over Chars.
MaxKeyLen == 2

\* The program makes at most MaxCalls calls after Trie::new().
MaxCalls == 4

Chars == {"a", "b"}

RECURSIVE KeysOfLen(_)
KeysOfLen(n) ==
    IF n = 0 THEN {<<>>}
    ELSE {<<c>> \o k : c \in Chars, k \in KeysOfLen(n - 1)}

Keys == UNION {KeysOfLen(n) : n \in 0..MaxKeyLen}

\* ------------------------------------------------------------------ Value
\* enum Value { Int32(u32), Int64(u64), String(String) }
Int32(v) == [kind |-> "Int32", int |-> v, str |-> ""]

Int64(v) == [kind |-> "Int64", int |-> v, str |-> ""]

String(v) == [kind |-> "String", int |-> 0, str |-> v]

\* The payloads the model puts: one of each kind, the two integers equal in
\* payload so that only the kind tells them apart.
Values == {Int32(1), Int64(1), String("s")}

\* Option<T>: None is the empty sequence, Some(x) the one-element sequence.
None == <<>>

Some(x) == <<x>>

\* ------------------------------------------------------------------- Node
\* HashMap<char, Arc<Node>>: a function from the characters it holds to
\* heap addresses.
EmptyMap == [c \in {} |-> 0]

\* An insert that forgets the entries the map held.
MapInsert_Alone(m, c, p) == [x \in {c} |-> p]

MapInsert(m, c, p) == [x \in (DOMAIN m) \cup {c} |-> IF x = c THEN p ELSE m[x]]

\* A remove that removes nothing.
MapRemove_Noop(m, c) == m

MapRemove(m, c) == [x \in (DOMAIN m) \ {c} |-> m[x]]

\* Node::new()
NodeNew == [value |-> None, children |-> EmptyMap]

\* Arc::new(node): the node gets the next free address.
ArcNew(h, node) == [heap |-> Append(h, node), ptr |-> Len(h) + 1]

\* Option<Arc<Node>>::None
NoRoot == 0

\* ------------------------------------------------------------------- Trie
\* Trie::new()
TrieNew == NoRoot

\* The loop of Trie::get from position i of the key, standing on node cur.
RECURSIVE GetWalk(_, _, _, _)
GetWalk(h, cur, key, i) ==
    IF i > Len(key) THEN h[cur].value
    ELSE IF key[i] \in DOMAIN h[cur].children
         THEN GetWalk(h, h[cur].children[key[i]], key, i + 1)
         ELSE None

\* Trie::get
Get(h, root, key) ==
    IF root = NoRoot THEN None ELSE GetWalk(h, root, key, 1)

\* create_path that sets the value on every node of the chain.
RECURSIVE CreatePath_ValueEverywhere(_, _, _)
CreatePath_ValueEverywhere(h, key, value) ==
    IF key = <<>>
    THEN [heap |-> h, node |-> [NodeNew EXCEPT !.value = Some(value)]]
    ELSE LET rest == CreatePath_ValueEverywhere(h, Tail(key), value)
             a    == ArcNew(rest.heap, rest.node)
         IN  [heap |-> a.heap,
              node |-> [NodeNew EXCEPT !.value = Some(value),
                                       !.children = MapInsert(@, Head(key), a.ptr)]]

\* Trie::create_path: returns the Node (not yet behind an Arc) that heads a
\* chain for key, after allocating the rest of the chain.
RECURSIVE CreatePath(_, _, _)
CreatePath(h, key, value) ==
    IF key = <<>>
    THEN [heap |-> h, node |-> [NodeNew EXCEPT !.value = Some(value)]]
    ELSE LET rest == CreatePath(h, Tail(key), value)
             a    == ArcNew(rest.heap, rest.node)
         IN  [heap |-> a.heap,
              node |-> [NodeNew EXCEPT !.children = MapInsert(@, Head(key), a.ptr)]]

\* put_helper that leaves the value found at the key's node as it was.
RECURSIVE PutHelper_KeepValue(_, _, _, _, _)
PutHelper_KeepValue(h, node, key, depth, value) ==
    LET copy == [value |-> h[node].value, children |-> h[node].children]
    IN  IF depth = Len(key)
        THEN ArcNew(h, IF copy.value = None THEN [copy EXCEPT !.value = Some(value)]
                       ELSE copy)
        ELSE LET c == key[depth + 1]
                 child ==
                    IF c \in DOMAIN h[node].children
                    THEN PutHelper_KeepValue(h, h[node].children[c], key, depth + 1, value)
                    ELSE LET p == CreatePath(h, SubSeq(key, depth + 2, Len(key)), value)
                         IN  ArcNew(p.heap, p.node)
             IN  ArcNew(child.heap,
                        [copy EXCEPT !.children = MapInsert(@, c, child.ptr)])

\* put_helper that writes the value into the node it was given instead of
\* into a copy.
RECURSIVE PutHelper_InPlace(_, _, _, _, _)
PutHelper_InPlace(h, node, key, depth, value) ==
    LET copy == [value |-> h[node].value, children |-> h[node].children]
    IN  IF depth = Len(key)
        THEN [heap |-> [h EXCEPT ![node].value = Some(value)], ptr |-> node]
        ELSE LET c == key[depth + 1]
                 child ==
                    IF c \in DOMAIN h[node].children
                    THEN PutHelper_InPlace(h, h[node].children[c], key, depth + 1, value)
                    ELSE LET p == CreatePath(h, SubSeq(key, depth + 2, Len(key)), value)
                         IN  ArcNew(p.heap, p.node)
             IN  ArcNew(child.heap,
                        [copy EXCEPT !.children = MapInsert(@, c, child.ptr)])

\* A copy of a children map in which every entry for a character of S points
\* to a fresh copy of the child instead of to the child.
RECURSIVE CloneEntries(_, _, _)
CloneEntries(h, m, S) ==
    IF S = {} THEN [heap |-> h, map |-> m]
    ELSE LET c == CHOOSE x \in S : TRUE
             a == ArcNew(h, h[m[c]])
         IN  CloneEntries(a.heap, [m EXCEPT ![c] = a.ptr], S \ {c})

\* put_helper that copies the children beside the path instead of sharing them.
RECURSIVE PutHelper_CloneSiblings(_, _, _, _, _)
PutHelper_CloneSiblings(h, node, key, depth, value) ==
    LET copy == [value |-> h[node].value, children |-> h[node].children]
    IN  IF depth = Len(key)
        THEN ArcNew(h, [copy EXCEPT !.value = Some(value)])
        ELSE LET c == key[depth + 1]
                 child ==
                    IF c \in DOMAIN h[node].children
                    THEN PutHelper_CloneSiblings(h, h[node].children[c], key, depth + 1, value)
                    ELSE LET p == CreatePath(h, SubSeq(key, depth + 2, Len(key)), value)
                         IN  ArcNew(p.heap, p.node)
                 sib == CloneEntries(child.heap, copy.children,
                                     (DOMAIN copy.children) \ {c})
             IN  ArcNew(sib.heap,
                        [copy EXCEPT !.children = MapInsert(sib.map, c, child.ptr)])

\* put_helper that puts the value into a fresh node, without the children.
RECURSIVE PutHelper_FreshTerminal(_, _, _, _, _)
PutHelper_FreshTerminal(h, node, key, depth, value) ==
    LET copy == [value |-> h[node].value, children |-> h[node].children]
    IN  IF depth = Len(key)
        THEN ArcNew(h, [NodeNew EXCEPT !.value = Some(value)])
        ELSE LET c == key[depth + 1]
                 child ==
                    IF c \in DOMAIN h[node].children
                    THEN PutHelper_FreshTerminal(h, h[node].children[c], key, depth + 1, value)
                    ELSE LET p == CreatePath(h, SubSeq(key, depth + 2, Len(key)), value)
                         IN  ArcNew(p.heap, p.node)
             IN  ArcNew(child.heap,
                        [copy EXCEPT !.children = MapInsert(@, c, child.ptr)])

\* Trie::put_helper; depth counts from 0 as in the source, key[depth] of the
\* source is key[depth + 1] here.
RECURSIVE PutHelper(_, _, _, _, _)
PutHelper(h, node, key, depth, value) ==
    LET copy == [value |-> h[node].value, children |-> h[node].children]
    IN  IF depth = Len(key)
        THEN ArcNew(h, [copy EXCEPT !.value = Some(value)])
        ELSE LET c == key[depth + 1]
                 child ==
                    IF c \in DOMAIN h[node].children
                    THEN PutHelper(h, h[node].children[c], key, depth + 1, value)
                    ELSE LET p == CreatePath(h, SubSeq(key, depth + 2, Len(key)), value)
                         IN  ArcNew(p.heap, p.node)
             IN  ArcNew(child.heap,
                        [copy EXCEPT !.children = MapInsert(@, c, child.ptr)])

\* Trie::put
Put(h, root, key, value) ==
    IF root # NoRoot
    THEN PutHelper(h, root, key, 0, value)
    ELSE IF key = <<>>
         THEN ArcNew(h, [NodeNew EXCEPT !.value = Some(value)])
         ELSE LET p == CreatePath(h, Tail(key), value)
                  a == ArcNew(p.heap, p.node)
              IN  ArcNew(a.heap,
                         [NodeNew EXCEPT !.children = MapInsert(@, Head(key), a.ptr)])

\* delete_helper that elides the key's node whether it has children or not.
RECURSIVE DeleteHelper_DropSubtree(_, _, _, _)
DeleteHelper_DropSubtree(h, node, key, depth) ==
    IF depth = Len(key)
    THEN [heap |-> h, ptr |-> NoRoot]
    ELSE LET c    == key[depth + 1]
             copy == [value |-> h[node].value, children |-> h[node].children]
             sub  == IF c \in DOMAIN h[node].children
                     THEN DeleteHelper_DropSubtree(h, h[node].children[c], key, depth + 1)
                     ELSE [heap |-> h, ptr |-> NoRoot]
             new_node ==
                 IF c \in DOMAIN h[node].children
                 THEN IF sub.ptr # NoRoot
                      THEN [copy EXCEPT !.children = MapInsert(@, c, sub.ptr)]
                      ELSE [copy EXCEPT !.children = MapRemove(@, c)]
                 ELSE copy
         IN  IF DOMAIN new_node.children = {} /\ new_node.value = None
             THEN [heap |-> sub.heap, ptr |-> NoRoot]
             ELSE ArcNew(sub.heap, new_node)


\* delete_helper that keeps every rebuilt ancestor, empty or not.
RECURSIVE DeleteHelper_NoPrune(_, _, _, _)
DeleteHelper_NoPrune(h, node, key, depth) ==
    IF depth = Len(key)
    THEN IF DOMAIN h[node].children # {}
         THEN ArcNew(h, [NodeNew EXCEPT !.children = h[node].children])
         ELSE [heap |-> h, ptr |-> NoRoot]
    ELSE LET c    == key[depth + 1]
             copy == [value |-> h[node].value, children |-> h[node].children]
             sub  == IF c \in DOMAIN h[node].children
                     THEN DeleteHelper_NoPrune(h, h[node].children[c], key, depth + 1)
                     ELSE [heap |-> h, ptr |-> NoRoot]
             new_node ==
                 IF c \in DOMAIN h[node].children
                 THEN IF sub.ptr # NoRoot
                      THEN [copy EXCEPT !.children = MapInsert(@, c, sub.ptr)]
                      ELSE [copy EXCEPT !.children = MapRemove(@, c)]
                 ELSE copy
         IN  ArcNew(sub.heap, new_node)


\* delete_helper that elides the node at which the key's path breaks off.
RECURSIVE DeleteHelper_MissingChildElides(_, _, _, _)
DeleteHelper_MissingChildElides(h, node, key, depth) ==
    IF depth = Len(key)
    THEN IF DOMAIN h[node].children # {}
         THEN ArcNew(h, [NodeNew EXCEPT !.children = h[node].children])
         ELSE [heap |-> h, ptr |-> NoRoot]
    ELSE LET c    == key[depth + 1]
             copy == [value |-> h[node].value, children |-> h[node].children]
             sub  == IF c \in DOMAIN h[node].children
                     THEN DeleteHelper_MissingChildElides(h, h[node].children[c], key, depth + 1)
                     ELSE [heap |-> h, ptr |-> NoRoot]
             new_node ==
                 IF c \in DOMAIN h[node].children
                 THEN IF sub.ptr # NoRoot
                      THEN [copy EXCEPT !.children = MapInsert(@, c, sub.ptr)]
                      ELSE [copy EXCEPT !.children = MapRemove(@, c)]
                 ELSE copy
         IN  IF \/ DOMAIN new_node.children = {} /\ new_node.value = None
                \/ c \notin DOMAIN h[node].children
             THEN [heap |-> sub.heap, ptr |-> NoRoot]
             ELSE ArcNew(sub.heap, new_node)


\* delete_helper that elides the key's node when it holds no value.
RECURSIVE DeleteHelper_ElideValueless(_, _, _, _)
DeleteHelper_ElideValueless(h, node, key, depth) ==
    IF depth = Len(key)
    THEN IF DOMAIN h[node].children # {} /\ h[node].value # None
         THEN ArcNew(h, [NodeNew EXCEPT !.children = h[node].children])
         ELSE [heap |-> h, ptr |-> NoRoot]
    ELSE LET c    == key[depth + 1]
             copy == [value |-> h[node].value, children |-> h[node].children]
             sub  == IF c \in DOMAIN h[node].children
                     THEN DeleteHelper_ElideValueless(h, h[node].children[c], key, depth + 1)
                     ELSE [heap |-> h, ptr |-> NoRoot]
             new_node ==
                 IF c \in DOMAIN h[node].children
                 THEN IF sub.ptr # NoRoot
                      THEN [copy EXCEPT !.children = MapInsert(@, c, sub.ptr)]
                      ELSE [copy EXCEPT !.children = MapRemove(@, c)]
                 ELSE copy
         IN  IF DOMAIN new_node.children = {} /\ new_node.value = None
             THEN [heap |-> sub.heap, ptr |-> NoRoot]
             ELSE ArcNew(sub.heap, new_node)


\* delete_helper that copies the value of a node it keeps for its children.
RECURSIVE DeleteHelper_TerminalKeepsValue(_, _, _, _)
DeleteHelper_TerminalKeepsValue(h, node, key, depth) ==
    IF depth = Len(key)
    THEN IF DOMAIN h[node].children # {}
         THEN ArcNew(h, [value |-> h[node].value, children |-> h[node].children])
         ELSE [heap |-> h, ptr |-> NoRoot]
    ELSE LET c    == key[depth + 1]
             copy == [value |-> h[node].value, children |-> h[node].children]
             sub  == IF c \in DOMAIN h[node].children
                     THEN DeleteHelper_TerminalKeepsValue(h, h[node].children[c], key, depth + 1)
                     ELSE [heap |-> h, ptr |-> NoRoot]
             new_node ==
                 IF c \in DOMAIN h[node].children
                 THEN IF sub.ptr # NoRoot
                      THEN [copy EXCEPT !.children = MapInsert(@, c, sub.ptr)]
                      ELSE [copy EXCEPT !.children = MapRemove(@, c)]
                 ELSE copy
         IN  IF DOMAIN new_node.children = {} /\ new_node.value = None
             THEN [heap |-> sub.heap, ptr |-> NoRoot]
             ELSE ArcNew(sub.heap, new_node)

\* delete_helper that leaves an empty node where a childless node was.
RECURSIVE DeleteHelper_KeepEmptyLeaf(_, _, _, _)
DeleteHelper_KeepEmptyLeaf(h, node, key, depth) ==
    IF depth = Len(key)
    THEN IF DOMAIN h[node].children # {}
         THEN ArcNew(h, [NodeNew EXCEPT !.children = h[node].children])
         ELSE ArcNew(h, NodeNew)
    ELSE LET c    == key[depth + 1]
             copy == [value |-> h[node].value, children |-> h[node].children]
             sub  == IF c \in DOMAIN h[node].children
                     THEN DeleteHelper_KeepEmptyLeaf(h, h[node].children[c], key, depth + 1)
                     ELSE [heap |-> h, ptr |-> NoRoot]
             new_node ==
                 IF c \in DOMAIN h[node].children
                 THEN IF sub.ptr # NoRoot
                      THEN [copy EXCEPT !.children = MapInsert(@, c, sub.ptr)]
                      ELSE [copy EXCEPT !.children = MapRemove(@, c)]
                 ELSE copy
         IN  IF DOMAIN new_node.children = {} /\ new_node.value = None
             THEN [heap |-> sub.heap, ptr |-> NoRoot]
             ELSE ArcNew(sub.heap, new_node)

\* delete_helper that elides every rebuilt ancestor that has no value.
RECURSIVE DeleteHelper_PruneValueless(_, _, _, _)
DeleteHelper_PruneValueless(h, node, key, depth) ==
    IF depth = Len(key)
    THEN IF DOMAIN h[node].children # {}
         THEN ArcNew(h, [NodeNew EXCEPT !.children = h[node].children])
         ELSE [heap |-> h, ptr |-> NoRoot]
    ELSE LET c    == key[depth + 1]
             copy == [value |-> h[node].value, children |-> h[node].children]
             sub  == IF c \in DOMAIN h[node].children
                     THEN DeleteHelper_PruneValueless(h, h[node].children[c], key, depth + 1)
                     ELSE [heap |-> h, ptr |-> NoRoot]
             new_node ==
                 IF c \in DOMAIN h[node].children
                 THEN IF sub.ptr # NoRoot
                      THEN [copy EXCEPT !.children = MapInsert(@, c, sub.ptr)]
                      ELSE [copy EXCEPT !.children = MapRemove(@, c)]
                 ELSE copy
         IN  IF new_node.value = None
             THEN [heap |-> sub.heap, ptr |-> NoRoot]
             ELSE ArcNew(sub.heap, new_node)

\* Trie::delete_helper; the result's ptr is NoRoot for None.
RECURSIVE DeleteHelper(_, _, _, _)
DeleteHelper(h, node, key, depth) ==
    IF depth = Len(key)
    THEN IF DOMAIN h[node].children # {}
         THEN ArcNew(h, [NodeNew EXCEPT !.children = h[node].children])
         ELSE [heap |-> h, ptr |-> NoRoot]
    ELSE LET c    == key[depth + 1]
             copy == [value |-> h[node].value, children |-> h[node].children]
             sub  == IF c \in DOMAIN h[node].children
                     THEN DeleteHelper(h, h[node].children[c], key, depth + 1)
                     ELSE [heap |-> h, ptr |-> NoRoot]
             new_node ==
                 IF c \in DOMAIN h[node].children
                 THEN IF sub.ptr # NoRoot
                      THEN [copy EXCEPT !.children = MapInsert(@, c, sub.ptr)]
                      ELSE [copy EXCEPT !.children = MapRemove(@, c)]
                 ELSE copy
         IN  IF DOMAIN new_node.children = {} /\ new_node.value = None
             THEN [heap |-> sub.heap, ptr |-> NoRoot]
             ELSE ArcNew(sub.heap, new_node)

\* delete that leaves an empty root node where the root should be absent.
Delete_KeepRoot(h, root, key) ==
    IF root = NoRoot
    THEN [heap |-> h, ptr |-> NoRoot]
    ELSE LET r == DeleteHelper(h, root, key, 0)
         IN  IF r.ptr = NoRoot THEN ArcNew(r.heap, NodeNew) ELSE r

\* delete that takes the empty key for "everything".
Delete_EmptyKeyClears(h, root, key) ==
    IF root = NoRoot \/ key = <<>>
    THEN [heap |-> h, ptr |-> NoRoot]
    ELSE DeleteHelper(h, root, key, 0)

\* Trie::delete
Delete(h, root, key) ==
    IF root = NoRoot
    THEN [heap |-> h, ptr |-> NoRoot]
    ELSE DeleteHelper(h, root, key, 0)

\* Trie::get_root
GetRoot(h, root) ==
    IF root # NoRoot THEN [heap |-> h, ptr |-> root] ELSE ArcNew(h, NodeNew)

\* Node's derived PartialEq, on the nodes behind two Arcs.
RECURSIVE NodeEq(_, _, _)
NodeEq(h, p, q) ==
    /\ h[p].value = h[q].value
    /\ DOMAIN h[p].children = DOMAIN h[q].children
    /\ \A c \in DOMAIN h[p].children :
          NodeEq(h, h[p].children[c], h[q].children[c])

\* ------------------------------------------------------------------ state
VARIABLES heap, versions, ret, calls, held, freed, threads

vars == <<heap, versions, ret, calls, held, freed, threads>>

Threads == {1, 2}

\* The values the threads put.
ThreadValues == {Int64(1)}

\* The locals of a call: the operation and its arguments, the node and the
\* depth of the current put_helper / delete_helper call or loop iteration,
\* the new_node of every call on the stack, the Option<Arc<Node>> being
\* returned (child) and what the caller does with it (link), the position
\* create_path has reached, and the result of a get.  seen, built and
\* steps record the nodes read with their content, the number of
\* Arc::new calls and the number of steps taken.
Idle ==
    [pc |-> "idle", op |-> "none", from |-> 1, key |-> <<>>, value |-> None,
     depth |-> 0, cur |-> NoRoot, stack |-> <<>>, child |-> NoRoot,
     link |-> "set", pos |-> 0, res |-> None,
     seen |-> <<>>, built |-> 0, steps |-> 0]

\* What the last call returned, when it was a get or a get_root.
NoRet == [call |-> "none", value |-> None, ptr |-> NoRoot]

\* The Arc<Node> a get_root call returned is dropped before the next call;
\* when it is the fresh node of an empty Trie nothing else holds it and the
\* node is freed.  It is the last node allocated.
DropRet(h, r) ==
    IF r.call = "get_root" /\ r.ptr = Len(h)
       /\ \A i \in 1..Len(versions) : versions[i].root # r.ptr
    THEN SubSeq(h, 1, Len(h) - 1)
    ELSE h

\* The newest Trie: `let trie = trie.put(..)` rebinds the name to it, and the
\* older ones stay held (as clones, or under other names).
Cur == Len(versions)

Init ==
    /\ heap = <<>>
    /\ versions = <<[root |-> TrieNew, op |-> "new", from |-> 0,
                     key |-> <<>>, value |-> None]>>
    /\ ret = NoRet
    /\ calls = 0
    /\ held = {1}
    /\ freed = {}
    /\ threads = [t \in Threads |-> Idle]

\* let t = versions[i].put(key, value)
PutCall(i, key, value) ==
    /\ i \in held
    /\ calls < MaxCalls
    /\ LET r == Put(DropRet(heap, ret), versions[i].root, key, value)
       IN  /\ heap' = r.heap
           /\ versions' = Append(versions,
                             [root |-> r.ptr, op |-> "put", from |-> i,
                              key |-> key, value |-> Some(value)])
    /\ ret' = NoRet
    /\ calls' = calls + 1
    /\ held' = held \cup {Len(versions) + 1}
    /\ UNCHANGED <<freed, threads>>

\* let t = versions[i].delete(key)
DeleteCall(i, key) ==
    /\ i \in held
    /\ calls < MaxCalls
    /\ LET r == Delete(DropRet(heap, ret), versions[i].root, key)
       IN  /\ heap' = r.heap
           /\ versions' = Append(versions,
                             [root |-> r.ptr, op |-> "delete", from |-> i,
                              key |-> key, value |-> None])
    /\ ret' = NoRet
    /\ calls' = calls + 1
    /\ held' = held \cup {Len(versions) + 1}
    /\ UNCHANGED <<freed, threads>>

\* versions[i].get(key)
GetCall(i, key) ==
    /\ i \in held
    /\ calls < MaxCalls
    /\ heap' = DropRet(heap, ret)
    /\ ret' = [call |-> "get", value |-> Get(heap', versions[i].root, key),
               ptr |-> NoRoot]
    /\ calls' = calls + 1
    /\ UNCHANGED <<versions, held, freed, threads>>

\* versions[i].get_root()
GetRootCall(i) ==
    /\ i \in held
    /\ calls < MaxCalls
    /\ LET r == GetRoot(DropRet(heap, ret), versions[i].root)
       IN  /\ heap' = r.heap
           /\ ret' = [call |-> "get_root", value |-> None, ptr |-> r.ptr]
    /\ calls' = calls + 1
    /\ UNCHANGED <<versions, held, freed, threads>>

\* Arc::strong_count of node p while no call runs: the Arcs to p are the
\* roots of the Tries held and the child entries of the nodes not freed.
StrongCount(h, fr, hd, p) ==
    Cardinality({i \in hd : versions[i].root = p})
    + Cardinality({e \in ((1..Len(h)) \ fr) \X Chars :
                      /\ e[2] \in DOMAIN h[e[1]].children
                      /\ h[e[1]].children[e[2]] = p})

\* A drop that destroys the node whatever its strong count is.
RECURSIVE DropArc_Always(_, _, _, _)
RECURSIVE DropChildren_Always(_, _, _, _, _)
DropArc_Always(h, fr, hd, p) ==
    DropChildren_Always(h, fr \cup {p}, hd, p, DOMAIN h[p].children)

DropChildren_Always(h, fr, hd, p, S) ==
    IF S = {} THEN fr
    ELSE LET c == CHOOSE x \in S : TRUE
         IN  DropChildren_Always(h, DropArc_Always(h, fr, hd, h[p].children[c]),
                                 hd, p, S \ {c})

\* Drop of one Arc to node p, the Arc itself already gone from hd or from a
\* freed node: when no Arc to p is left the node is destroyed, and with it
\* its children map, which drops the Arc of every entry.  Returns the set
\* of nodes freed.
RECURSIVE DropArc(_, _, _, _)
RECURSIVE DropChildren(_, _, _, _, _)
DropArc(h, fr, hd, p) ==
    IF StrongCount(h, fr, hd, p) > 0
    THEN fr
    ELSE DropChildren(h, fr \cup {p}, hd, p, DOMAIN h[p].children)

\* Drop of the Arcs in the entries S of the children map of node p.
DropChildren(h, fr, hd, p, S) ==
    IF S = {} THEN fr
    ELSE LET c == CHOOSE x \in S : TRUE
         IN  DropChildren(h, DropArc(h, fr, hd, h[p].children[c]), hd, p, S \ {c})

\* drop(versions[i]): the Trie goes out of scope; the memory of a node that
\* is freed no longer holds the node.
DropCall(i) ==
    /\ i \in held
    /\ calls < MaxCalls
    /\ held' = held \ {i}
    /\ LET h == DropRet(heap, ret)
       IN  /\ freed' = IF versions[i].root = NoRoot THEN freed
                        ELSE DropArc(h, freed, held', versions[i].root)
           /\ heap' = [p \in 1..Len(h) |-> IF p \in freed' THEN NodeNew ELSE h[p]]
    /\ ret' = NoRet
    /\ calls' = calls + 1
    /\ UNCHANGED <<versions, threads>>

\* A program that always mutates its newest Trie and reads any Trie it holds.
Next ==
    \/ \E key \in Keys, value \in Values : PutCall(Cur, key, value)
    \/ \E key \in Keys : DeleteCall(Cur, key)
    \/ \E i \in 1..Len(versions), key \in Keys : GetCall(i, key)
    \/ \E i \in 1..Len(versions) : GetRootCall(i)

Spec == Init /\ [][Next]_vars

\* A program that derives new Tries from any Trie it holds (one call fewer,
\* the choice of the Trie multiplies the runs).
NextBranch ==
    \/ \E i \in 1..Len(versions), key \in Keys, value \in Values :
          calls < MaxCalls - 1 /\ PutCall(i, key, value)
    \/ \E i \in 1..Len(versions), key \in Keys :
          calls < MaxCalls - 1 /\ DeleteCall(i, key)
    \/ \E i \in 1..Len(versions), key \in Keys :
          calls < MaxCalls - 1 /\ GetCall(i, key)
    \/ \E i \in 1..Len(versions) :
          calls < MaxCalls - 1 /\ GetRootCall(i)

SpecBranch == Init /\ [][NextBranch]_vars

\* A program that also drops Tries it holds, in any order.
NextDrop ==
    \/ NextBranch
    \/ \E i \in held : calls < MaxCalls - 1 /\ DropCall(i)

SpecDrop == Init /\ [][NextDrop]_vars

\* ---------------------------------------------------------------- threads
\* key[depth] of a Vec<char> is valid (Rust indexes from 0).
InBounds(key, depth) == depth < Len(key)

\* The call of thread t returns the Trie with the given root.
Finish(t, f, root) ==
    /\ threads' = [threads EXCEPT ![t] =
                      [f EXCEPT !.pc = "done", !.stack = <<>>, !.child = root]]
    /\ versions' = Append(versions,
                      [root |-> root, op |-> f.op, from |-> f.from,
                       key |-> f.key, value |-> f.value])
    /\ held' = held \cup {Len(versions) + 1}

\* Thread t calls versions[i].get(key): without a root the result is None.
ThreadGet(t, i, key) ==
    /\ threads[t].pc = "idle"
    /\ \A u \in Threads : u < t => threads[u].pc # "idle"
    /\ i \in held
    /\ calls < MaxCalls
    /\ calls' = calls + 1
    /\ threads' = [threads EXCEPT ![t] =
          [Idle EXCEPT !.op = "get", !.from = i, !.key = key,
                       !.cur = versions[i].root,
                       !.pc = IF versions[i].root = NoRoot THEN "done" ELSE "get"]]
    /\ UNCHANGED <<heap, versions, ret, held, freed>>

\* One iteration of the loop of get, or the read of the value after it:
\* one read of the node current.
GetStep(t) ==
    LET f == threads[t]
        node == heap[f.cur]
        g == [f EXCEPT !.seen = Append(@, <<f.cur, node>>), !.steps = @ + 1]
    IN  /\ f.pc = "get"
        /\ threads' = [threads EXCEPT ![t] =
              IF f.depth < Len(f.key)
              THEN LET c == f.key[f.depth + 1]
                   IN  IF c \in DOMAIN node.children
                       THEN [g EXCEPT !.cur = node.children[c], !.depth = @ + 1]
                       ELSE [g EXCEPT !.pc = "done", !.res = None]
              ELSE [g EXCEPT !.pc = "done", !.res = node.value]]
        /\ UNCHANGED <<heap, versions, ret, calls, held, freed>>

\* Thread t calls versions[i].put(key, value): with a root it calls
\* put_helper at depth 0; without one it makes the root's new_node and,
\* for a key that is not empty, unwraps the first character and calls
\* create_path for the rest.
ThreadPut(t, i, key, value) ==
    /\ threads[t].pc = "idle"
    /\ \A u \in Threads : u < t => threads[u].pc # "idle"
    /\ i \in held
    /\ calls < MaxCalls
    /\ calls' = calls + 1
    /\ LET root == versions[i].root
           f == [Idle EXCEPT !.op = "put", !.from = i, !.key = key,
                             !.value = Some(value), !.cur = root]
       IN  threads' = [threads EXCEPT ![t] =
              IF root # NoRoot
              THEN [f EXCEPT !.pc = "put_helper"]
              ELSE IF key = <<>>
                   THEN [f EXCEPT !.pc = "return", !.link = "term",
                                  !.stack = <<[NodeNew EXCEPT !.value = Some(value)]>>]
                   ELSE IF ~InBounds(key, 0)
                        THEN [f EXCEPT !.pc = "panic"]
                        ELSE [f EXCEPT !.pc = "create_path", !.pos = Len(key),
                                       !.stack = <<NodeNew>>]]
    /\ UNCHANGED <<heap, versions, ret, held, freed>>

\* A put_helper that returns the node it was given when the node already
\* holds the value to put.
PutHelperEnter_ShareSameValue(t) ==
    LET f == threads[t]
        node == heap[f.cur]
        new_node == [NodeNew EXCEPT !.value = node.value,
                                    !.children = node.children]
        g == [f EXCEPT !.seen = Append(@, <<f.cur, node>>), !.steps = @ + 1]
    IN  /\ f.pc = "put_helper"
        /\ IF f.depth = Len(f.key) /\ node.value = f.value
           THEN IF f.stack = <<>>
                THEN Finish(t, g, f.cur)
                ELSE /\ threads' = [threads EXCEPT ![t] =
                          [g EXCEPT !.child = f.cur, !.link = "set",
                                    !.pc = "return"]]
                     /\ UNCHANGED <<versions, held>>
           ELSE /\ threads' = [threads EXCEPT ![t] =
                     IF f.depth = Len(f.key)
                     THEN [g EXCEPT !.stack = Append(@, [new_node EXCEPT !.value = f.value]),
                                    !.link = "term", !.pc = "return"]
                     ELSE IF ~InBounds(f.key, f.depth)
                          THEN [g EXCEPT !.pc = "panic"]
                          ELSE LET c == f.key[f.depth + 1]
                               IN  IF c \in DOMAIN node.children
                                   THEN [g EXCEPT !.stack = Append(@, new_node),
                                                  !.cur = node.children[c],
                                                  !.depth = @ + 1]
                                   ELSE [g EXCEPT !.stack = Append(@, new_node),
                                                  !.pc = "create_path",
                                                  !.pos = Len(f.key)]]
                /\ UNCHANGED <<versions, held>>
        /\ UNCHANGED <<heap, ret, calls, freed>>

\* A put_helper whose test for the end of the key is one call late.
PutHelperEnter_LateTerminal(t) ==
    LET f == threads[t]
        node == heap[f.cur]
        new_node == [NodeNew EXCEPT !.value = node.value,
                                    !.children = node.children]
        g == [f EXCEPT !.seen = Append(@, <<f.cur, node>>), !.steps = @ + 1]
    IN  /\ f.pc = "put_helper"
        /\ threads' = [threads EXCEPT ![t] =
              IF f.depth = Len(f.key) + 1
              THEN [g EXCEPT !.stack = Append(@, [new_node EXCEPT !.value = f.value]),
                             !.link = "term", !.pc = "return"]
              ELSE IF ~InBounds(f.key, f.depth)
                   THEN [g EXCEPT !.pc = "panic"]
                   ELSE LET c == f.key[f.depth + 1]
                        IN  IF c \in DOMAIN node.children
                            THEN [g EXCEPT !.stack = Append(@, new_node),
                                           !.cur = node.children[c],
                                           !.depth = @ + 1]
                            ELSE [g EXCEPT !.stack = Append(@, new_node),
                                           !.pc = "create_path",
                                           !.pos = Len(f.key)]]
        /\ UNCHANGED <<heap, versions, ret, calls, held, freed>>

\* Entry of put_helper(node, key, depth, value) up to its recursive call,
\* its call of create_path or its terminal assignment: one read of node.
PutHelperEnter(t) ==
    LET f == threads[t]
        node == heap[f.cur]
        new_node == [NodeNew EXCEPT !.value = node.value,
                                    !.children = node.children]
        g == [f EXCEPT !.seen = Append(@, <<f.cur, node>>), !.steps = @ + 1]
    IN  /\ f.pc = "put_helper"
        /\ threads' = [threads EXCEPT ![t] =
              IF f.depth = Len(f.key)
              THEN [g EXCEPT !.stack = Append(@, [new_node EXCEPT !.value = f.value]),
                             !.link = "term", !.pc = "return"]
              ELSE IF ~InBounds(f.key, f.depth)
                   THEN [g EXCEPT !.pc = "panic"]
                   ELSE LET c == f.key[f.depth + 1]
                        IN  IF c \in DOMAIN node.children
                            THEN [g EXCEPT !.stack = Append(@, new_node),
                                           !.cur = node.children[c],
                                           !.depth = @ + 1]
                            ELSE [g EXCEPT !.stack = Append(@, new_node),
                                           !.pc = "create_path",
                                           !.pos = Len(f.key)]]
        /\ UNCHANGED <<heap, versions, ret, calls, held, freed>>

\* One Arc::new of create_path: the calls of create_path nest down to the
\* end of the key, and the nodes are constructed on the way back, the
\* node at depth pos holding the value (pos = key.len()) or the one child
\* constructed before it.
CreatePathStep(t) ==
    LET f == threads[t]
        node == IF f.pos = Len(f.key)
                THEN [NodeNew EXCEPT !.value = f.value]
                ELSE [NodeNew EXCEPT
                         !.children = MapInsert(@, f.key[f.pos + 1], f.child)]
        a == ArcNew(heap, node)
    IN  /\ f.pc = "create_path"
        /\ heap' = a.heap
        /\ threads' = [threads EXCEPT ![t] =
              [f EXCEPT !.child = a.ptr, !.link = "set", !.pos = @ - 1,
                        !.built = @ + 1, !.steps = @ + 1,
                        !.pc = IF f.pos = Len(f.stack) THEN "return"
                               ELSE "create_path"]]
        /\ UNCHANGED <<versions, ret, calls, held, freed>>

\* A put_helper that stores the updated copy over the node it copied.
PutHelperReturn_InPlace(t) ==
    LET f == threads[t]
        d == Len(f.stack)
        top == f.stack[d]
        new_node == IF f.link = "set"
                    THEN [top EXCEPT !.children = MapInsert(@, f.key[d], f.child)]
                    ELSE top
        a == IF d <= Len(f.seen)
             THEN [heap |-> [heap EXCEPT ![f.seen[d][1]] = new_node],
                   ptr |-> f.seen[d][1]]
             ELSE ArcNew(heap, new_node)
        g == [f EXCEPT !.built = @ + 1, !.steps = @ + 1]
    IN  /\ f.pc = "return"
        /\ f.op = "put"
        /\ heap' = a.heap
        /\ IF d = 1
           THEN Finish(t, g, a.ptr)
           ELSE /\ threads' = [threads EXCEPT ![t] =
                      [g EXCEPT !.stack = SubSeq(@, 1, d - 1), !.child = a.ptr,
                                !.link = "set"]]
                /\ UNCHANGED <<versions, held>>
        /\ UNCHANGED <<ret, calls, freed>>

\* End of a put_helper call, or of put without a root: the child returned
\* is inserted into new_node, and Arc::new constructs the node.
PutHelperReturn(t) ==
    LET f == threads[t]
        d == Len(f.stack)
        top == f.stack[d]
        new_node == IF f.link = "set"
                    THEN [top EXCEPT !.children = MapInsert(@, f.key[d], f.child)]
                    ELSE top
        a == ArcNew(heap, new_node)
        g == [f EXCEPT !.built = @ + 1, !.steps = @ + 1]
    IN  /\ f.pc = "return"
        /\ f.op = "put"
        /\ heap' = a.heap
        /\ IF d = 1
           THEN Finish(t, g, a.ptr)
           ELSE /\ threads' = [threads EXCEPT ![t] =
                      [g EXCEPT !.stack = SubSeq(@, 1, d - 1), !.child = a.ptr,
                                !.link = "set"]]
                /\ UNCHANGED <<versions, held>>
        /\ UNCHANGED <<ret, calls, freed>>

\* Thread t calls versions[i].delete(key): without a root the new Trie has
\* none either; with one it calls delete_helper at depth 0.
ThreadDelete(t, i, key) ==
    /\ threads[t].pc = "idle"
    /\ \A u \in Threads : u < t => threads[u].pc # "idle"
    /\ i \in held
    /\ calls < MaxCalls
    /\ calls' = calls + 1
    /\ LET root == versions[i].root
           f == [Idle EXCEPT !.op = "delete", !.from = i, !.key = key,
                             !.cur = root]
       IN  IF root = NoRoot
           THEN Finish(t, f, NoRoot)
           ELSE /\ threads' = [threads EXCEPT ![t] =
                                  [f EXCEPT !.pc = "delete_helper"]]
                /\ UNCHANGED <<versions, held>>
    /\ UNCHANGED <<heap, ret, freed>>

\* Entry of delete_helper(node, key, depth) up to its recursive call or,
\* at the end of the key and when the child is missing, up to the point
\* where it decides what to return: one read of node.
DeleteHelperEnter(t) ==
    LET f == threads[t]
        node == heap[f.cur]
        new_node == [NodeNew EXCEPT !.value = node.value,
                                    !.children = node.children]
        g == [f EXCEPT !.seen = Append(@, <<f.cur, node>>), !.steps = @ + 1]
    IN  /\ f.pc = "delete_helper"
        /\ IF f.depth = Len(f.key)
           THEN IF node.children # EmptyMap
                THEN /\ threads' = [threads EXCEPT ![t] =
                          [g EXCEPT !.stack = Append(@, [NodeNew EXCEPT
                                                !.children = node.children]),
                                    !.link = "term", !.pc = "return"]]
                     /\ UNCHANGED <<versions, held>>
                ELSE IF f.stack = <<>>
                     THEN Finish(t, g, NoRoot)
                     ELSE /\ threads' = [threads EXCEPT ![t] =
                               [g EXCEPT !.child = NoRoot, !.link = "set",
                                         !.pc = "return"]]
                          /\ UNCHANGED <<versions, held>>
           ELSE /\ threads' = [threads EXCEPT ![t] =
                     IF ~InBounds(f.key, f.depth)
                     THEN [g EXCEPT !.pc = "panic"]
                     ELSE LET c == f.key[f.depth + 1]
                          IN  IF c \in DOMAIN node.children
                              THEN [g EXCEPT !.stack = Append(@, new_node),
                                             !.cur = node.children[c],
                                             !.depth = @ + 1]
                              ELSE [g EXCEPT !.stack = Append(@, new_node),
                                             !.link = "keep", !.pc = "return"]]
                /\ UNCHANGED <<versions, held>>
        /\ UNCHANGED <<heap, ret, calls, freed>>

\* End of a delete_helper call: the child returned replaces the entry of
\* new_node or, when it is None, removes it; the terminal node that has
\* children is constructed as it is; any other node is constructed unless
\* it has no children and no value, and then None is returned.
DeleteHelperReturn(t) ==
    LET f == threads[t]
        d == Len(f.stack)
        top == f.stack[d]
        c == f.key[d]
        new_node == IF f.link = "set"
                    THEN IF f.child # NoRoot
                         THEN [top EXCEPT !.children = MapInsert(@, c, f.child)]
                         ELSE [top EXCEPT !.children = MapRemove(@, c)]
                    ELSE top
        elide == /\ f.link # "term"
                 /\ new_node.children = EmptyMap
                 /\ new_node.value = None
        a == ArcNew(heap, new_node)
        result == IF elide THEN NoRoot ELSE a.ptr
        g == [f EXCEPT !.built = IF elide THEN @ ELSE @ + 1, !.steps = @ + 1]
    IN  /\ f.pc = "return"
        /\ f.op = "delete"
        /\ heap' = IF elide THEN heap ELSE a.heap
        /\ IF d = 1
           THEN Finish(t, g, result)
           ELSE /\ threads' = [threads EXCEPT ![t] =
                      [g EXCEPT !.stack = SubSeq(@, 1, d - 1), !.child = result,
                                !.link = "set"]]
                /\ UNCHANGED <<versions, held>>
        /\ UNCHANGED <<ret, calls, freed>>

\* Threads that share the Tries held: the program builds Tries, then starts
\* the threads; each thread runs one call on any Trie held, the steps of
\* the calls interleave, and a Trie a thread returns is held as well.
\* Threads are interchangeable, so they start in the order of their ids.
NextConc ==
    \/ \E key \in Keys, value \in Values :
          /\ calls < MaxCalls - 3
          /\ \A t \in Threads : threads[t].pc = "idle"
          /\ PutCall(Cur, key, value)
    \/ \E t \in Threads, i \in 1..Len(versions), key \in Keys :
          calls < MaxCalls - 1 /\ ThreadGet(t, i, key)
    \/ \E t \in Threads, i \in 1..Len(versions), key \in Keys,
          value \in ThreadValues :
          calls < MaxCalls - 1 /\ ThreadPut(t, i, key, value)
    \/ \E t \in Threads, i \in 1..Len(versions), key \in Keys :
          calls < MaxCalls - 1 /\ ThreadDelete(t, i, key)
    \/ \E t \in Threads : GetStep(t)
    \/ \E t \in Threads : PutHelperEnter(t)
    \/ \E t \in Threads : CreatePathStep(t)
    \/ \E t \in Threads : PutHelperReturn(t)
    \/ \E t \in Threads : DeleteHelperEnter(t)
    \/ \E t \in Threads : DeleteHelperReturn(t)

SpecConc == Init /\ [][NextConc]_vars

\* ----------------------------------------------------------------- claims
\* The Trie versions[i] was derived from.
Parent(i) == versions[versions[i].from]

\* The versions built by a put or a delete.
Derived == 2..Len(versions)

IsPrefix(k1, k2) == Len(k1) <= Len(k2) /\ SubSeq(k2, 1, Len(k1)) = k1

\* The addresses reachable from address p.
RECURSIVE Reach(_, _)
Reach(h, p) ==
    {p} \cup UNION {Reach(h, h[p].children[c]) : c \in DOMAIN h[p].children}

\* The addresses reachable from a root.
ReachRoot(h, root) == IF root = NoRoot THEN {} ELSE Reach(h, root)

\* The nodes some Trie the program holds can reach.
Live == UNION {ReachRoot(heap, versions[i].root) : i \in 1..Len(versions)}

\* C1: round-trip.  Every Trie built by put(k, v), on any Trie reachable
\* from new(), returns Some(v) for k.
C1_RoundTrip ==
    \A i \in Derived :
        versions[i].op = "put"
            => Get(heap, versions[i].root, versions[i].key) = versions[i].value

\* A put on the empty key that overwrites a value of another kind, in a Trie
\* that also stores an extension of the key, and a put on a key of full
\* length below a stored prefix.
C1_Witness ==
    /\ \E i \in Derived :
          /\ versions[i].op = "put" /\ versions[i].key = <<>>
          /\ Get(heap, Parent(i).root, <<>>) # None
          /\ Get(heap, Parent(i).root, <<>>)[1].kind # versions[i].value[1].kind
          /\ \E k \in Keys : k # <<>> /\ Get(heap, versions[i].root, k) # None
          /\ Get(heap, versions[i].root, <<>>) = versions[i].value
    /\ \E i \in Derived :
          /\ versions[i].op = "put" /\ Len(versions[i].key) = MaxKeyLen
          /\ Get(heap, Parent(i).root, SubSeq(versions[i].key, 1, 1)) # None
          /\ Get(heap, versions[i].root, versions[i].key) = versions[i].value

\* C2: immutability of prior versions.  No call changes what get returns on
\* a Trie built before it, for any key, nor the value or the children of a
\* node such a Trie reaches; the Tries themselves stay as they were.
C2_PriorVersionsImmutable ==
    [][/\ Len(versions') >= Len(versions)
       /\ \A i \in 1..Len(versions) :
             /\ versions'[i] = versions[i]
             /\ \A k \in Keys :
                   Get(heap', versions[i].root, k) = Get(heap, versions[i].root, k)
       /\ \A p \in Live : p <= Len(heap') /\ heap'[p] = heap[p]]_vars

\* Two Tries derived from the same populated Trie, one by a put and one by a
\* delete on a key it stores, and the Trie they come from still returns its
\* own value.
C2_Witness ==
    \E i, j \in Derived :
        /\ i < j /\ versions[i].from = versions[j].from
        /\ versions[i].op = "put" /\ versions[j].op = "delete"
        /\ versions[i].key = versions[j].key
        /\ LET old == Get(heap, Parent(i).root, versions[i].key)
           IN  /\ old # None
               /\ old # Get(heap, versions[i].root, versions[i].key)
               /\ Get(heap, versions[j].root, versions[j].key) = None

\* The node the path of key leads to from node p, NoRoot when a hop is missing.
RECURSIVE NodeFrom(_, _, _)
NodeFrom(h, p, key) ==
    IF key = <<>> THEN p
    ELSE IF Head(key) \in DOMAIN h[p].children
         THEN NodeFrom(h, h[p].children[Head(key)], Tail(key))
         ELSE NoRoot

\* The node at key in the Trie of that root, NoRoot when there is none.
NodeAt(h, root, key) == IF root = NoRoot THEN NoRoot ELSE NodeFrom(h, root, key)

\* The keys a Trie maps to a value.
Stored(root) == {k \in Keys : Get(heap, root, k) # None}

\* get_root() of two Tries compare equal (Node's ==).
SameStructure(r1, r2) ==
    LET a == GetRoot(heap, r1)
        b == GetRoot(a.heap, r2)
    IN  NodeEq(b.heap, a.ptr, b.ptr)

\* versions[j] comes from versions[i] by calls on key k alone.
RECURSIVE OnlyKey(_, _, _)
OnlyKey(j, i, k) ==
    \/ j = i
    \/ j > i /\ versions[j].key = k /\ OnlyKey(versions[j].from, i, k)

\* C3: isolation.  A put or a delete on k1, and any sequence of them on k1
\* alone, leaves get(k2) as it was for every other key k2.
C3_Isolation ==
    \A j \in Derived :
        LET after == [k2 \in Keys |-> Get(heap, versions[j].root, k2)]
        IN  \A i \in 1..(j - 1) :
                OnlyKey(j, i, versions[j].key)
                    => \A k2 \in Keys \ {versions[j].key} :
                          after[k2] = Get(heap, versions[i].root, k2)

\* A put and then a delete on a stored key k1 while a proper prefix and a
\* proper extension of k1 are stored.
C3_Witness ==
    \E j \in Derived :
        /\ versions[j].op = "delete" /\ versions[j].from \in Derived
        /\ Parent(j).op = "put" /\ Parent(j).key = versions[j].key
        /\ \E k2, k3 \in Stored(versions[j].root) :
              /\ k2 # versions[j].key /\ IsPrefix(k2, versions[j].key)
              /\ k3 # versions[j].key /\ IsPrefix(versions[j].key, k3)

\* C4: the Trie a delete(k) returns has no value for k.
C4_DeleteRemoves ==
    \A i \in Derived :
        versions[i].op = "delete" => Get(heap, versions[i].root, versions[i].key) = None

\* A delete of a stored key whose node has children, which keeps the node,
\* and a delete of a key that is not stored.
C4_Witness ==
    /\ \E i \in Derived :
          /\ versions[i].op = "delete"
          /\ versions[i].key \in Stored(Parent(i).root)
          /\ DOMAIN heap[NodeAt(heap, Parent(i).root, versions[i].key)].children # {}
          /\ NodeAt(heap, versions[i].root, versions[i].key) # NoRoot
    /\ \E i \in Derived :
          /\ versions[i].op = "delete"
          /\ versions[i].key \notin Stored(Parent(i).root)

\* The finite map the calls that built versions[i] describe.
RECURSIVE AbsMap(_)
AbsMap(i) ==
    IF versions[i].op = "new"
    THEN [k \in Keys |-> None]
    ELSE [AbsMap(versions[i].from) EXCEPT ![versions[i].key] = versions[i].value]

\* C5: the Trie refines a finite map.  On every version kept, get(k) is the
\* value of the last put on k that no delete of k follows, else None.
C5_RefinesMap ==
    \A i \in 1..Len(versions) :
        LET m == AbsMap(i)
        IN  \A k \in Keys : Get(heap, versions[i].root, k) = m[k]

\* A run of MaxCalls puts and deletes with a delete of a stored key and an
\* overwrite in it, whose last Trie stores a key.
C5_Witness ==
    /\ Len(versions) = MaxCalls + 1
    /\ Stored(versions[Cur].root) # {}
    /\ \E i \in Derived :
          versions[i].op = "delete" /\ versions[i].key \in Stored(Parent(i).root)
    /\ \E i \in Derived :
          /\ versions[i].op = "put" /\ versions[i].key \in Stored(Parent(i).root)
          /\ Get(heap, Parent(i).root, versions[i].key) # versions[i].value

\* C6: pruning.  No node a Trie reaches has neither a value nor children,
\* and every node a Trie reaches lies on the path of a key it stores.
C6_Pruned ==
    \A i \in 1..Len(versions) :
        /\ \A p \in ReachRoot(heap, versions[i].root) :
              heap[p].value # None \/ DOMAIN heap[p].children # {}
        /\ LET stored == Stored(versions[i].root)
           IN  \A q \in Keys :
                   NodeAt(heap, versions[i].root, q) # NoRoot
                       => \E k \in stored : IsPrefix(q, k)

\* A delete of the only key below a stored key two characters up: the
\* key's node and its parent go, the root stays.
C6_Witness ==
    \E i \in Derived :
        /\ versions[i].op = "delete" /\ Len(versions[i].key) = 2
        /\ versions[i].key \in Stored(Parent(i).root)
        /\ NodeAt(heap, Parent(i).root, SubSeq(versions[i].key, 1, 1)) # NoRoot
        /\ NodeAt(heap, versions[i].root, SubSeq(versions[i].key, 1, 1)) = NoRoot
        /\ versions[i].root # NoRoot

\* C7: the root is absent exactly when no key maps to a value, and then
\* get_root() equals a fresh empty Node.
C7_EmptyWhenAllDeleted ==
    \A i \in 1..Len(versions) :
        /\ versions[i].root = NoRoot <=> Stored(versions[i].root) = {}
        /\ Stored(versions[i].root) = {} => SameStructure(versions[i].root, TrieNew)

\* Two keys put, the empty key and a key of two characters, then both
\* deleted: the root is there until the second delete and absent after it.
C7_Witness ==
    /\ Len(versions) = 5
    /\ versions[2].op = "put" /\ versions[3].op = "put"
    /\ {versions[2].key, versions[3].key} = {<<>>, <<"a", "b">>}
    /\ versions[4].op = "delete" /\ versions[5].op = "delete"
    /\ versions[4].root # NoRoot
    /\ versions[5].root = NoRoot

\* C8: deleting an absent key is a no-op.  A delete(k) on a Trie with no
\* value for k returns a Trie whose get_root() equals the original's and
\* whose get results are the original's.
C8_DeleteAbsentNoOp ==
    \A i \in Derived :
        versions[i].op = "delete" /\ versions[i].key \notin Stored(Parent(i).root)
            => /\ SameStructure(Parent(i).root, versions[i].root)
               /\ \A k \in Keys :
                     Get(heap, versions[i].root, k) = Get(heap, Parent(i).root, k)

\* Deletes of an absent key on an empty Trie, at a value-less inner node,
\* and where the path breaks off below the root.
C8_Witness ==
    /\ \E i \in Derived : versions[i].op = "delete" /\ Parent(i).root = NoRoot
    /\ \E i \in Derived :
          /\ versions[i].op = "delete" /\ versions[i].key # <<>>
          /\ NodeAt(heap, Parent(i).root, versions[i].key) # NoRoot
          /\ versions[i].key \notin Stored(Parent(i).root)
          /\ versions[i].root # Parent(i).root
    /\ \E i \in Derived :
          /\ versions[i].op = "delete" /\ Parent(i).root # NoRoot
          /\ NodeAt(heap, Parent(i).root, versions[i].key) = NoRoot

\* C9: idempotent delete.  t.delete(k).delete(k) has the get results of
\* t.delete(k), for every key.
C9_DeleteIdempotent ==
    \A j \in Derived :
        /\ versions[j].op = "delete" /\ versions[j].from \in Derived
        /\ Parent(j).op = "delete" /\ Parent(j).key = versions[j].key
        => \A k \in Keys :
              Get(heap, versions[j].root, k) = Get(heap, Parent(j).root, k)

\* A key deleted twice in a row, stored before the first delete together
\* with an extension of it.
C9_Witness ==
    \E j \in Derived :
        /\ versions[j].op = "delete" /\ versions[j].from \in Derived
        /\ Parent(j).op = "delete" /\ Parent(j).key = versions[j].key
        /\ versions[j].key \in Stored(versions[Parent(j).from].root)
        /\ \E k \in Stored(versions[j].root) : IsPrefix(versions[j].key, k)

\* C10: empty-key addressing.  put("", v) makes get("") return Some(v),
\* delete("") makes it return None, and neither changes get on a non-empty
\* key.
C10_EmptyKey ==
    \A i \in Derived :
        versions[i].key = <<>>
            => /\ Get(heap, versions[i].root, <<>>) = versions[i].value
               /\ \A k \in Keys \ {<<>>} :
                     Get(heap, versions[i].root, k) = Get(heap, Parent(i).root, k)

\* put("", v) on an empty Trie, put("", v) on a Trie that stores a
\* non-empty key, and delete("") right after it with that key still stored.
C10_Witness ==
    /\ \E i \in Derived :
          versions[i].op = "put" /\ versions[i].key = <<>> /\ Parent(i).root = NoRoot
    /\ \E j \in Derived :
          /\ versions[j].op = "delete" /\ versions[j].key = <<>>
          /\ versions[j].from \in Derived
          /\ Parent(j).op = "put" /\ Parent(j).key = <<>>
          /\ Stored(versions[Parent(j).from].root) \ {<<>>} # {}
          /\ Stored(versions[j].root) = Stored(versions[Parent(j).from].root) \ {<<>>}

\* The keys SubSeq(k, 1, n): the positions on the path of k.
Prefixes(k) == {SubSeq(k, 1, n) : n \in 0..Len(k)}

\* The next character of k after its prefix q, as a set: empty at the end.
NextChar(k, q) == IF Len(q) < Len(k) THEN {k[Len(q) + 1]} ELSE {}

\* C11: structural sharing.  For a Trie built by put(k, ..) or delete(k)
\* every node it reaches and the Trie it came from does not is on the path
\* of k, and at every node of that path the child entries for characters
\* other than the next character of k are those of the original node, with
\* the same child nodes (a node the call created beside no original has no
\* such entry).
C11_StructuralSharing ==
    \A i \in Derived :
        LET k   == versions[i].key
            old == Parent(i).root
            new == versions[i].root
        IN  /\ \A p \in ReachRoot(heap, new) \ ReachRoot(heap, old) :
                  \E q \in Prefixes(k) : NodeAt(heap, new, q) = p
            /\ \A q \in Prefixes(k) :
                  LET n2 == NodeAt(heap, new, q)
                      n1 == NodeAt(heap, old, q)
                  IN  n2 # NoRoot =>
                        \A c \in Chars \ NextChar(k, q) :
                            IF n1 = NoRoot
                            THEN c \notin DOMAIN heap[n2].children
                            ELSE /\ c \in DOMAIN heap[n2].children
                                    <=> c \in DOMAIN heap[n1].children
                                 /\ c \in DOMAIN heap[n2].children
                                    => heap[n2].children[c] = heap[n1].children[c]

\* A put and a delete that each rebuild a root which has a child beside the
\* path: the new root is another node and the child beside the path is the
\* same node in both Tries.
C11_Witness ==
    \A o \in {"put", "delete"} :
        \E i \in Derived :
            /\ versions[i].op = o /\ versions[i].key # <<>>
            /\ Parent(i).root # NoRoot /\ versions[i].root # NoRoot
            /\ versions[i].root # Parent(i).root
            /\ \E c \in Chars \ {versions[i].key[1]} :
                  /\ c \in DOMAIN heap[Parent(i).root].children
                  /\ c \in DOMAIN heap[versions[i].root].children
                  /\ heap[versions[i].root].children[c] = heap[Parent(i).root].children[c]

\* C15: overwrite keeps the subtree.  When put(k, v) finds a node at k, the
\* node at k of the new Trie has value v and the children map of the old
\* node, entry for entry the same child nodes; stored extensions of k keep
\* their values.
C15_OverwriteKeepsSubtree ==
    \A i \in Derived :
        LET k  == versions[i].key
            n1 == NodeAt(heap, Parent(i).root, k)
            n2 == NodeAt(heap, versions[i].root, k)
        IN  versions[i].op = "put" /\ n1 # NoRoot
            => /\ n2 # NoRoot
               /\ heap[n2].value = versions[i].value
               /\ heap[n2].children = heap[n1].children
               /\ \A k2 \in Stored(Parent(i).root) :
                     IsPrefix(k, k2) /\ k2 # k
                         => Get(heap, versions[i].root, k2) = Get(heap, Parent(i).root, k2)

\* A put on the empty key and a put on a longer key, each on a node that
\* exists and has children.
C15_Witness ==
    \A len \in {0, 1} :
        \E i \in Derived :
            /\ versions[i].op = "put" /\ Len(versions[i].key) = len
            /\ NodeAt(heap, Parent(i).root, versions[i].key) # NoRoot
            /\ DOMAIN heap[NodeAt(heap, Parent(i).root, versions[i].key)].children # {}
            /\ NodeAt(heap, versions[i].root, versions[i].key)
                   # NodeAt(heap, Parent(i).root, versions[i].key)

\* C16: terminal step of delete.  When delete(k) finds a node at k: if the
\* node has children, the new Trie has a node at k with no value and the
\* same children map (same child nodes), and stored extensions of k keep
\* their values; if it has none, the new Trie has no node at k and the
\* parent node, if it is still there, has no entry for k's last character.
C16_DeleteTerminal ==
    \A i \in Derived :
        LET k  == versions[i].key
            n1 == NodeAt(heap, Parent(i).root, k)
            n2 == NodeAt(heap, versions[i].root, k)
            up == NodeAt(heap, versions[i].root, SubSeq(k, 1, Len(k) - 1))
        IN  versions[i].op = "delete" /\ n1 # NoRoot
            => IF DOMAIN heap[n1].children # {}
               THEN /\ n2 # NoRoot
                    /\ heap[n2].value = None
                    /\ heap[n2].children = heap[n1].children
                    /\ \A k2 \in Stored(Parent(i).root) :
                          IsPrefix(k, k2) /\ k2 # k
                              => Get(heap, versions[i].root, k2)
                                     = Get(heap, Parent(i).root, k2)
               ELSE /\ n2 = NoRoot
                    /\ k # <<>> /\ up # NoRoot
                           => k[Len(k)] \notin DOMAIN heap[up].children

\* A delete of a stored key whose node has children and a delete of a
\* stored key whose node has none.
C16_Witness ==
    /\ \E i \in Derived :
          /\ versions[i].op = "delete"
          /\ versions[i].key \in Stored(Parent(i).root)
          /\ DOMAIN heap[NodeAt(heap, Parent(i).root, versions[i].key)].children # {}
          /\ NodeAt(heap, versions[i].root, versions[i].key)
                 # NodeAt(heap, Parent(i).root, versions[i].key)
    /\ \E i \in Derived :
          /\ versions[i].op = "delete"
          /\ versions[i].key \in Stored(Parent(i).root)
          /\ DOMAIN heap[NodeAt(heap, Parent(i).root, versions[i].key)].children = {}
          /\ NodeAt(heap, versions[i].root, versions[i].key) = NoRoot

\* C17: a put into an empty Trie builds a single chain: Len(k) + 1 nodes,
\* one per prefix of k; the nodes before the last have no value and exactly
\* one child, for the next character; the last holds v and has no children.
C17_SingleChain ==
    \A i \in Derived :
        LET k == versions[i].key
            r == versions[i].root
        IN  versions[i].op = "put" /\ Parent(i).root = NoRoot
            => /\ Cardinality(ReachRoot(heap, r)) = Len(k) + 1
               /\ \A n \in 0..Len(k) :
                     LET p == NodeAt(heap, r, SubSeq(k, 1, n))
                     IN  /\ p # NoRoot
                         /\ IF n < Len(k)
                            THEN /\ heap[p].value = None
                                 /\ DOMAIN heap[p].children = {k[n + 1]}
                            ELSE /\ heap[p].value = versions[i].value
                                 /\ DOMAIN heap[p].children = {}

\* The empty Trie put into twice: once a key of full length, once the empty
\* key.
C17_Witness ==
    \A len \in {0, MaxKeyLen} :
        \E i \in Derived :
            /\ versions[i].op = "put" /\ Parent(i).root = NoRoot
            /\ Len(versions[i].key) = len
            /\ Get(heap, versions[i].root, versions[i].key) = versions[i].value

\* C19: canonical structure.  Two Tries that return the same result for
\* every key have equal get_root() nodes (Node's ==), and the paths that
\* lead from a root to a node are exactly the prefixes of the stored keys.
C19_Canonical ==
    /\ \A i, j \in 1..Len(versions) :
          i < j /\ Stored(versions[i].root) = Stored(versions[j].root)
              /\ (\A k \in Keys : Get(heap, versions[i].root, k)
                                      = Get(heap, versions[j].root, k))
              => SameStructure(versions[i].root, versions[j].root)
    /\ \A i \in 1..Len(versions) :
          LET stored == Stored(versions[i].root)
          IN  \A q \in Keys :
                  NodeAt(heap, versions[i].root, q) # NoRoot
                      <=> \E k \in stored : IsPrefix(q, k)

\* Two Tries with the same content and different root nodes, one built by a
\* put alone, the other by that put, a put below it and a delete of the
\* second key.
C19_Witness ==
    \E i, j \in Derived :
        /\ i < j /\ versions[i].root # versions[j].root
        /\ versions[i].root # NoRoot
        /\ versions[i].op = "put" /\ versions[j].op = "delete"
        /\ versions[j].key # versions[i].key /\ IsPrefix(versions[i].key, versions[j].key)
        /\ versions[j].key \in Stored(Parent(j).root)
        /\ \A k \in Keys : Get(heap, versions[i].root, k) = Get(heap, versions[j].root, k)

\* C20: delete undoes put.  For a Trie t with no value for k, the Trie
\* t.put(k, v).delete(k) has a get_root() equal to t's (Node's ==), and no
\* root when t has none.
C20_DeleteUndoesPut ==
    \A j \in Derived :
        /\ versions[j].op = "delete" /\ versions[j].from \in Derived
        /\ Parent(j).op = "put" /\ Parent(j).key = versions[j].key
        /\ versions[j].key \notin Stored(versions[Parent(j).from].root)
        => /\ SameStructure(versions[j].root, versions[Parent(j).from].root)
           /\ versions[Parent(j).from].root = NoRoot => versions[j].root = NoRoot

\* A put of a key of full length on a Trie that stores another key and has
\* no node on the new key's path but the root, then the delete of the new
\* key: the chain is gone again.
C20_Witness ==
    \E j \in Derived :
        /\ versions[j].op = "delete" /\ versions[j].from \in Derived
        /\ Parent(j).op = "put" /\ Parent(j).key = versions[j].key
        /\ Len(versions[j].key) = MaxKeyLen
        /\ LET t == versions[Parent(j).from].root
           IN  /\ t # NoRoot /\ Stored(t) # {}
               /\ NodeAt(heap, t, SubSeq(versions[j].key, 1, 1)) = NoRoot
               /\ NodeAt(heap, Parent(j).root, versions[j].key) # NoRoot
               /\ NodeAt(heap, versions[j].root, SubSeq(versions[j].key, 1, 1)) = NoRoot
               /\ versions[j].root # NoRoot /\ versions[j].root # t

\* C14: node lifetime.  Whatever Tries are dropped, in whatever order: no
\* freed node is the root of a Trie still held or a child of a node not
\* freed; no Trie still held reaches a freed node; and get on a Trie still
\* held returns, for every key, what the calls that built the Trie say.
C14_NodeLifetime ==
    /\ \A p \in freed : StrongCount(heap, freed, held, p) = 0
    /\ \A i \in held :
          /\ ReachRoot(heap, versions[i].root) \cap freed = {}
          /\ LET m == AbsMap(i)
             IN  \A k \in Keys : Get(heap, versions[i].root, k) = m[k]

\* A Trie dropped whose root is freed while a node below it stays, shared
\* with a Trie still held that was built from it.
C14_Witness ==
    \E i \in Derived \ held : \E j \in held :
        /\ versions[j].from = i
        /\ versions[j].root # NoRoot
        /\ versions[i].root \in freed
        /\ \E c \in DOMAIN heap[versions[j].root].children :
              /\ heap[versions[j].root].children[c] < versions[i].root
              /\ heap[versions[j].root].children[c] \notin freed
        /\ Stored(versions[j].root) # {}

\* C12: lock-free concurrent use.  In every interleaving of the node reads
\* and node constructions of the threads' calls: every node a call has read
\* still has the content it had when it was read; a get that has finished
\* returned what get returns when run alone on its Trie; and a put or
\* delete that has finished returned the Trie the call returns when run
\* alone on its input Trie, the same in structure and sharing the same
\* nodes with its input.
C12_LockFree ==
    /\ \A t \in Threads :
          LET f == threads[t]
          IN  /\ \A j \in 1..Len(f.seen) : heap[f.seen[j][1]] = f.seen[j][2]
              /\ (f.pc = "done" /\ f.op = "get")
                 => f.res = Get(heap, versions[f.from].root, f.key)
    /\ \A i \in Derived :
          LET v == versions[i]
              old == Parent(i).root
              r == IF v.op = "put" THEN Put(heap, old, v.key, v.value[1])
                   ELSE Delete(heap, old, v.key)
          IN  /\ v.root = NoRoot <=> r.ptr = NoRoot
              /\ v.root # NoRoot => NodeEq(r.heap, v.root, r.ptr)
              /\ ReachRoot(heap, v.root) \cap ReachRoot(heap, old)
                 = ReachRoot(r.heap, r.ptr) \cap ReachRoot(heap, old)

\* A get that has read the root of a Trie and is about to read the next
\* node while another thread, putting or deleting the same key in the same
\* Trie, has constructed a node and is about to construct the next.
C12_Witness ==
    \E t \in Threads, u \in Threads :
        /\ threads[t].op = "get" /\ threads[t].pc = "get"
        /\ Len(threads[t].seen) >= 1
        /\ threads[u].op \in {"put", "delete"} /\ threads[u].pc = "return"
        /\ threads[u].built >= 1
        /\ threads[u].from = threads[t].from
        /\ threads[u].key = threads[t].key

\* A step of the call thread t runs.
ThreadStep(t) ==
    \/ GetStep(t)
    \/ PutHelperEnter(t)
    \/ CreatePathStep(t)
    \/ PutHelperReturn(t)
    \/ DeleteHelperEnter(t)
    \/ DeleteHelperReturn(t)

\* C13: totality and termination.  No call panics on an index or an
\* unwrap; depth never exceeds the key's length; the put_helper or
\* delete_helper call at depth d has exactly d calls below it on the stack,
\* and the get loop at depth d has read d nodes, so each call or iteration
\* advances depth by one; a call that has not returned can always take a
\* step, and no call takes more than 2 * (|key| + 1) steps.
C13_Total ==
    \A t \in Threads :
        LET f == threads[t]
        IN  /\ f.pc # "panic"
            /\ f.depth <= Len(f.key)
            /\ f.pc \in {"put_helper", "delete_helper"} => Len(f.stack) = f.depth
            /\ f.pc = "get" => Len(f.seen) = f.depth
            /\ f.steps <= 2 * (Len(f.key) + 1)
            /\ f.pc \notin {"idle", "done"} => ENABLED ThreadStep(t)

\* A put of the empty key on the empty Trie and a delete of an absent key
\* of full length on a Trie that is not empty have both returned.
C13_Witness ==
    \E t \in Threads, u \in Threads :
        /\ threads[t].pc = "done" /\ threads[t].op = "put"
        /\ threads[t].key = <<>>
        /\ versions[threads[t].from].root = NoRoot
        /\ threads[u].pc = "done" /\ threads[u].op = "delete"
        /\ Len(threads[u].key) = MaxKeyLen
        /\ versions[threads[u].from].root # NoRoot
        /\ threads[u].key \notin Stored(versions[threads[u].from].root)

\* The number of Arc::new calls of the calls of the threads in S.
RECURSIVE BuiltBy(_)
BuiltBy(S) ==
    IF S = {} THEN 0
    ELSE LET t == CHOOSE x \in S : TRUE
         IN  threads[t].built + BuiltBy(S \ {t})

\* The number of nodes of the Tries i..j, each built by a put run alone.
RECURSIVE BuiltAlone(_, _)
BuiltAlone(i, j) ==
    IF i > j THEN 0
    ELSE Len(versions[i].key) + 1 + BuiltAlone(i + 1, j)

\* C18: work depends on the key length only.  Whatever the Trie holds: a
\* call on key k has constructed at most |k|+1 nodes and read at most |k|+1
\* nodes; a get constructs none; a put that has returned has constructed
\* exactly |k|+1; and the nodes ever constructed are those counted, |k|+1
\* for each put run alone plus the count of each thread's call.
C18_WorkByKeyLength ==
    /\ \A t \in Threads :
          LET f == threads[t]
              n == Len(f.key) + 1
          IN  /\ f.built <= n
              /\ Len(f.seen) <= n
              /\ f.op = "get" => f.built = 0
              /\ (f.pc = "done" /\ f.op = "put") => f.built = n
    /\ LET started == {t \in Threads : threads[t].pc # "idle"}
           alone == calls - Cardinality(started)
       IN  Len(heap) = BuiltAlone(2, 1 + alone) + BuiltBy(Threads)

\* Two puts have returned on a Trie that is not empty: one whose key's
\* path existed in full, one whose key's path existed in part.
C18_Witness ==
    \E t \in Threads, u \in Threads :
        /\ threads[t].pc = "done" /\ threads[t].op = "put"
        /\ threads[u].pc = "done" /\ threads[u].op = "put"
        /\ Len(threads[t].seen) = Len(threads[t].key) + 1
        /\ Len(threads[t].key) >= 1
        /\ Len(threads[u].seen) >= 1
        /\ Len(threads[u].seen) < Len(threads[u].key) + 1
====
